---------------------------- MODULE Spec2Model ----------------------------
(***************************************************************************)
(* Model of the lead-capture form component                                *)
(* (src/src/components/LeadCaptureForm.tsx).                               *)
(*                                                                         *)
(* A string is a sequence of one-character strings.  The state is the      *)
(* component's committed React state (formData, errors, isSubmitting,      *)
(* isSubmitted), the position of the asynchronous handleSubmit (pc) and    *)
(* the event handled last (event): which handler ran and, for the phone    *)
(* input, the raw text it was given (the other handlers store the text     *)
(* they are given unchanged in formData).                                  *)
(***************************************************************************)
EXTENDS Integers, Sequences, FiniteSets, TLC

VARIABLES formData, errors, isSubmitting, isSubmitted, pc, event

vars == <<formData, errors, isSubmitting, isSubmitted, pc, event>>

-----------------------------------------------------------------------------
(* Characters and strings *)

Letters ==
  {"a", "b", "c", "d", "e", "f", "g", "h", "i", "j", "k", "l", "m",
   "n", "o", "p", "q", "r", "s", "t", "u", "v", "w", "x", "y", "z"}
Digits == {"0", "1", "2", "3", "4", "5", "6", "7", "8", "9"}
Space == " "
Tab == "\t"

\* What JavaScript's \s and String.prototype.trim treat as white space
\* (the space, the tab and the other Unicode white space the tab stands for).
IsWhitespace(c) == c \in {Space, Tab}

Rep(c, n) == [i \in 1..n |-> c]

RECURSIVE TrimStart(_)
TrimStart(s) ==
  IF s # <<>> /\ IsWhitespace(Head(s)) THEN TrimStart(Tail(s)) ELSE s

RECURSIVE TrimEnd(_)
TrimEnd(s) ==
  IF s # <<>> /\ IsWhitespace(s[Len(s)])
  THEN TrimEnd(SubSeq(s, 1, Len(s) - 1))
  ELSE s

\* z.string().trim(): the value the later checks of the same field see.
Trim(s) == TrimEnd(TrimStart(s))

\* String.prototype.slice(0, n)
Slice(s, n) == SubSeq(s, 1, IF Len(s) < n THEN Len(s) ELSE n)

-----------------------------------------------------------------------------
(* The validation schema (zod) *)

Fields ==
  {"name", "email", "company", "phone", "companySize", "automationGoal",
   "currentWorkflow", "urgency"}

NameMax == 100
EmailMax == 255
CompanyMax == 100
PhoneMax == 20
AutomationGoalMax == 500

\* The value of a key of FormErrors that holds no message.
Undefined == "undefined"

Issue(f, msg) == [path |-> f, message |-> msg]

\* .min(n, msg): one issue when the string is shorter than n.
MinCheck(f, v, n, msg) == IF Len(v) < n THEN <<Issue(f, msg)>> ELSE <<>>

\* zod's message for .max(n) when none is given.
TooBigMessage(n) ==
  "String must contain at most " \o ToString(n) \o " character(s)"

\* .max(n): one issue when the string is longer than n.
MaxCheck(f, v, n) == IF Len(v) > n THEN <<Issue(f, TooBigMessage(n))>> ELSE <<>>

IsAlnum(c) == c \in Letters \cup Digits

\* The part of an address after the "@": labels of letters, digits and
\* hyphens, each starting with a letter or digit and ending in a dot, then a
\* last label of two or more letters.
IsEmailDomain(d) ==
  LET dots == {i \in 1..Len(d) : d[i] = "."}
      last == IF dots = {} THEN 0 ELSE CHOOSE i \in dots : \A j \in dots : j <= i
  IN  /\ dots # {}
      /\ \A i \in 1..last : IsAlnum(d[i]) \/ d[i] \in {"-", "."}
      /\ IsAlnum(d[1])
      /\ \A i \in dots : i < Len(d) /\ d[i + 1] # "." /\ (i < last => IsAlnum(d[i + 1]))
      /\ Len(d) - last >= 2
      /\ \A i \in (last + 1)..Len(d) : d[i] \in Letters

\* .email(): the shape zod's email pattern accepts: a local part of letters,
\* digits, "+", "-" and "." that neither starts nor ends with a dot, one
\* "@", a domain as above, and no two dots in a row anywhere.
IsEmail(s) ==
  LET ats == {i \in 1..Len(s) : s[i] = "@"}
      at == CHOOSE i \in ats : TRUE
      local == SubSeq(s, 1, at - 1)
  IN  /\ Cardinality(ats) = 1
      /\ local # <<>>
      /\ \A i \in 1..Len(local) : IsAlnum(local[i]) \/ local[i] \in {"+", "-", "."}
      /\ local[1] # "."
      /\ local[Len(local)] # "."
      /\ \A i \in 1..(Len(s) - 1) : ~(s[i] = "." /\ s[i + 1] = ".")
      /\ IsEmailDomain(SubSeq(s, at + 1, Len(s)))

EmailCheck(f, v, msg) == IF IsEmail(v) THEN <<>> ELSE <<Issue(f, msg)>>

\* The schema of each field: the issues its checks raise, in the order of the
\* checks.  Every check of a field runs, also after an earlier one has failed.
nameSchema(v) ==
  MinCheck("name", Trim(v), 1, "Name is required") \o MaxCheck("name", Trim(v), NameMax)

emailSchema(v) ==
  EmailCheck("email", Trim(v), "Please enter a valid email")
    \o MaxCheck("email", Trim(v), EmailMax)

companySchema(v) ==
  MinCheck("company", Trim(v), 1, "Company name is required")
    \o MaxCheck("company", Trim(v), CompanyMax)

phoneSchema(v) == MaxCheck("phone", Trim(v), PhoneMax)

\* A slip: the select's schema without its .min(1).
companySizeSchema_NoMin(v) == <<>>

companySizeSchema(v) == MinCheck("companySize", v, 1, "Please select company size")

automationGoalSchema(v) ==
  MinCheck("automationGoal", Trim(v), 1, "Please describe what you want to automate")
    \o MaxCheck("automationGoal", Trim(v), AutomationGoalMax)

currentWorkflowSchema(v) == MinCheck("currentWorkflow", v, 1, "Please select an option")

urgencySchema(v) == MinCheck("urgency", v, 1, "Please select urgency")

\* The keys of the schema, in the order in which they are parsed.
SchemaKeys ==
  <<"name", "email", "company", "phone", "companySize", "automationGoal",
    "currentWorkflow", "urgency">>

\* The issues of field f holding v.
fieldSchema(f, v) ==
  CASE f = "name" -> nameSchema(v)
    [] f = "email" -> emailSchema(v)
    [] f = "company" -> companySchema(v)
    [] f = "phone" -> phoneSchema(v)
    [] f = "companySize" -> companySizeSchema(v)
    [] f = "automationGoal" -> automationGoalSchema(v)
    [] f = "currentWorkflow" -> currentWorkflowSchema(v)
    [] f = "urgency" -> urgencySchema(v)

RECURSIVE IssuesFrom(_, _)
IssuesFrom(data, i) ==
  IF i > Len(SchemaKeys)
  THEN <<>>
  ELSE fieldSchema(SchemaKeys[i], data[SchemaKeys[i]]) \o IssuesFrom(data, i + 1)

\* formSchema.safeParse(data).error.errors: the issues of all fields, in the
\* order of the schema's keys; empty when the parse succeeds.
formSchema(data) == IssuesFrom(data, 1)

NoErrors == [f \in Fields |-> Undefined]

\* result.error.errors.forEach(err => fieldErrors[err.path[0]] = err.message)
\* A slip: the loop stops after the first issue.
fieldErrors_FirstIssueOnly(issues, acc) ==
  IF issues = <<>>
  THEN acc
  ELSE [acc EXCEPT ![Head(issues).path] = Head(issues).message]

RECURSIVE fieldErrors(_, _)
fieldErrors(issues, acc) ==
  IF issues = <<>>
  THEN acc
  ELSE fieldErrors(Tail(issues), [acc EXCEPT ![Head(issues).path] = Head(issues).message])

-----------------------------------------------------------------------------
(* The options of the three select elements (their value attributes) *)

companySizeOptions ==
  << <<>>,
     <<"1", "-", "1", "0">>,
     <<"1", "1", "-", "5", "0">>,
     <<"5", "1", "-", "2", "0", "0">>,
     <<"2", "0", "1", "-", "5", "0", "0">>,
     <<"5", "0", "0", "+">> >>

workflowOptions ==
  << <<>>,
     <<"m", "a", "n", "u", "a", "l", "l", "y">>,
     <<"u", "s", "i", "n", "g", "-", "t", "o", "o", "l", "s">>,
     <<"p", "a", "r", "t", "i", "a", "l", "l", "y", "-", "a", "u", "t", "o", "m", "a", "t", "e", "d">>,
     <<"n", "o", "t", "-", "s", "u", "r", "e">> >>

urgencyOptions ==
  << <<>>,
     <<"a", "s", "a", "p">>,
     <<"t", "h", "i", "s", "-", "m", "o", "n", "t", "h">>,
     <<"e", "x", "p", "l", "o", "r", "i", "n", "g">> >>

\* The options rendered into the select element of field f.
OptionsOf(f) ==
  CASE f = "companySize" -> companySizeOptions
    [] f = "currentWorkflow" -> workflowOptions
    [] f = "urgency" -> urgencyOptions

-----------------------------------------------------------------------------
(* The component *)

\* useState initial values
InitialFormData == [f \in Fields |-> <<>>]

\* const cleaned = value.replace(/[^\d+\-\s()]/g, "")
PhoneCharKept(c) == c \in Digits \cup {"+", "-", "(", ")"} \/ IsWhitespace(c)

\* A slip: truncating before cleaning.
formatPhoneNumber_SliceFirst(value) == SelectSeq(Slice(value, 20), PhoneCharKept)

formatPhoneNumber(value) == Slice(SelectSeq(value, PhoneCharKept), 20)

\* What the component renders: the confirmation message once isSubmitted is
\* set, the form otherwise.
View == IF isSubmitted THEN "confirmation" ELSE "form"

\* A slip: the form stays mounted beside the confirmation message.
FormRendered_Always == TRUE

\* The form's handlers can run only while the form is rendered.
FormRendered == View = "form"

\* A slip: the submit button without its disabled attribute.
SubmitDisabled_Never == FALSE

\* <button type="submit" disabled={isSubmitting}>: a disabled submit button
\* also blocks implicit submission from the text inputs.
SubmitDisabled == isSubmitting

\* The fields whose elements are bound to handleChange.
TextFields == {"name", "email", "company", "automationGoal"}
SelectFields == {"companySize", "currentWorkflow", "urgency"}

Init ==
  /\ formData = InitialFormData
  /\ errors = NoErrors
  /\ isSubmitting = FALSE
  /\ isSubmitted = FALSE
  /\ pc = "idle"
  /\ event = [op |-> "mount", value |-> <<>>]

\* A slip: the edit leaves the field's error in place.
handleChange_KeepsError(name, value) ==
  /\ FormRendered
  /\ formData' = [formData EXCEPT ![name] = value]
  /\ event' = [op |-> "change", value |-> <<>>]
  /\ UNCHANGED <<errors, isSubmitting, isSubmitted, pc>>

handleChange(name, value) ==
  /\ FormRendered
  /\ formData' = [formData EXCEPT ![name] = value]
  /\ errors' = IF errors[name] # Undefined
               THEN [errors EXCEPT ![name] = Undefined]
               ELSE errors
  /\ event' = [op |-> "change", value |-> <<>>]
  /\ UNCHANGED <<isSubmitting, isSubmitted, pc>>

handlePhoneChange(value) ==
  /\ FormRendered
  /\ formData' = [formData EXCEPT !["phone"] = formatPhoneNumber(value)]
  /\ event' = [op |-> "phone", value |-> value]
  /\ UNCHANGED <<errors, isSubmitting, isSubmitted, pc>>

\* A slip: the failure path returns without setIsSubmitting(false).
handleSubmit_StaysSubmitting ==
  /\ FormRendered
  /\ ~SubmitDisabled
  /\ LET issues == formSchema(formData)
     IN  IF issues # <<>>
         THEN /\ errors' = fieldErrors(issues, NoErrors)
              /\ isSubmitting' = TRUE
              /\ pc' = "idle"
         ELSE /\ errors' = NoErrors
              /\ isSubmitting' = TRUE
              /\ pc' = "awaiting"
  /\ event' = [op |-> "submit", value |-> <<>>]
  /\ UNCHANGED <<formData, isSubmitted>>

\* handleSubmit up to its return or its await.  The state updates of one
\* handler are committed together, so a failed validation leaves
\* isSubmitting false and the new errors, with no state in between.
handleSubmit ==
  /\ FormRendered
  /\ ~SubmitDisabled
  /\ LET issues == formSchema(formData)
     IN  IF issues # <<>>
         THEN /\ errors' = fieldErrors(issues, NoErrors)
              /\ isSubmitting' = FALSE
              /\ pc' = "idle"
         ELSE /\ errors' = NoErrors
              /\ isSubmitting' = TRUE
              /\ pc' = "awaiting"
  /\ event' = [op |-> "submit", value |-> <<>>]
  /\ UNCHANGED <<formData, isSubmitted>>

\* A slip: the resumption clears isSubmitting and never sets isSubmitted.
handleSubmitResume_NotSubmitted ==
  /\ pc = "awaiting"
  /\ isSubmitting' = FALSE
  /\ pc' = "idle"
  /\ event' = [op |-> "timer", value |-> <<>>]
  /\ UNCHANGED <<formData, errors, isSubmitted>>

\* A slip: the resumption sets isSubmitted and leaves isSubmitting set.
handleSubmitResume_StillSubmitting ==
  /\ pc = "awaiting"
  /\ isSubmitted' = TRUE
  /\ pc' = "done"
  /\ event' = [op |-> "timer", value |-> <<>>]
  /\ UNCHANGED <<formData, errors, isSubmitting>>

\* The 1200 ms timer fires and handleSubmit resumes after its await.
handleSubmitResume ==
  /\ pc = "awaiting"
  /\ isSubmitting' = FALSE
  /\ isSubmitted' = TRUE
  /\ pc' = "done"
  /\ event' = [op |-> "timer", value |-> <<>>]
  /\ UNCHANGED <<formData, errors>>

-----------------------------------------------------------------------------
(* What the user types and selects *)

\* How many of its non-empty options the user picks from each select.
MaxOptions == 1

\* How many characters the user puts in front of the body of a phone number.
MaxLead == 2

\* How far past the 20 characters kept the body of a phone number reaches.
MaxExtra == 1

FieldMax(f) ==
  CASE f = "name" -> NameMax
    [] f = "email" -> EmailMax
    [] f = "company" -> CompanyMax
    [] f = "automationGoal" -> AutomationGoalMax

ValidEmail == <<"j", "a", "n", "e", "@", "a", "c", "m", "e", ".", "c", "o", "m">>

\* Inputs of a text field: empty, a short word (no email address) and a word
\* one character past the field's limit; for the email field also a
\* well-formed address and a well-formed address one character past the limit.
TextInputs(f) ==
  {<<>>, <<"a">>, Rep("a", FieldMax(f) + 1)}
    \cup (IF f = "email"
          THEN {ValidEmail, Rep("a", FieldMax(f) + 1 - Len(ValidEmail)) \o ValidEmail}
          ELSE {})

\* A select element yields only the values of its options.
SelectInputs(f) ==
  LET options == OptionsOf(f)
  IN  {options[i] : i \in {j \in 1..Len(options) : j <= 1 + MaxOptions}}

\* The values each element bound to handleChange is given.
ChangeInputs ==
  [f \in TextFields \cup SelectFields |->
     IF f \in TextFields THEN TextInputs(f) ELSE SelectInputs(f)]

PhoneInputs == {<<>>, <<"+", "1", " ", "a">>}

\* Raw phone inputs: up to MaxLead characters of one kind, then a body of
\* another kind that is empty or reaches from MaxLead short of the 20
\* characters kept to MaxExtra past them.
PhoneAlphabet == {"1", "+", "-", "(", ")", Space, Tab, "a"}

RawPhoneInputs ==
  {Rep(c, n) \o Rep(d, m) :
     c \in PhoneAlphabet, d \in PhoneAlphabet, n \in 0..MaxLead,
     m \in {0} \cup ((PhoneMax - MaxLead)..(PhoneMax + MaxExtra))}

Next ==
  \/ \E f \in TextFields \cup SelectFields : \E v \in ChangeInputs[f] : handleChange(f, v)
  \/ \E v \in PhoneInputs : handlePhoneChange(v)
  \/ handleSubmit
  \/ handleSubmitResume

Spec == Init /\ [][Next]_vars

\* The same component on short text inputs only: those of ChangeInputs
\* within the field's limit, and a blank.
ShortInputs ==
  [f \in TextFields \cup SelectFields |->
     IF f \in TextFields
     THEN {v \in ChangeInputs[f] : Len(v) <= FieldMax(f)} \cup {<<Space>>}
     ELSE ChangeInputs[f]]

ShortNext ==
  \/ \E f \in TextFields \cup SelectFields : \E v \in ShortInputs[f] : handleChange(f, v)
  \/ \E v \in PhoneInputs : handlePhoneChange(v)
  \/ handleSubmit
  \/ handleSubmitResume

ShortSpec == Init /\ [][ShortNext]_vars

\* Nothing cancels the timer, so the resumption of handleSubmit is not
\* postponed forever.
FairSpec == ShortSpec /\ WF_vars(handleSubmitResume)

\* The phone input alone, on many raw inputs, and the submit button.
PhoneNext ==
  \/ \E v \in RawPhoneInputs : handlePhoneChange(v)
  \/ handleSubmit

PhoneSpec == Init /\ [][PhoneNext]_vars

-----------------------------------------------------------------------------
(* Properties *)

TypeOK ==
  /\ formData \in [Fields -> Seq(Letters \cup Digits \cup {"@", ".", "+", "-", "(", ")", Space, Tab})]
  /\ DOMAIN errors = Fields
  /\ isSubmitting \in BOOLEAN
  /\ isSubmitted \in BOOLEAN
  /\ pc \in {"idle", "awaiting", "done"}
  /\ event.op \in {"mount", "change", "phone", "submit", "timer"}

\* Every field passes its rules.
AllValid == \A f \in Fields : fieldSchema(f, formData[f]) = <<>>

\* C2: a submit on values that fail a rule halts: no delay is started,
\* isSubmitting is false when the handler has returned, isSubmitted is not
\* set and the form is still shown.
C2_InvalidSubmitHalts ==
  (event.op = "submit" /\ ~AllValid) =>
    (pc = "idle" /\ ~isSubmitting /\ ~isSubmitted /\ View = "form")

C2_Witness == event.op = "submit" /\ ~AllValid /\ errors # NoErrors

RequiredFields == Fields \ {"phone"}

\* C3: after a submit in which every field is either empty or passes its
\* rules, exactly the empty required fields hold a message, a non-empty one.
C3_ErrorsForExactlyEmptyRequired ==
  (event.op = "submit"
     /\ \A f \in Fields : formData[f] = <<>> \/ fieldSchema(f, formData[f]) = <<>>) =>
    \A f \in Fields :
      /\ (errors[f] # Undefined) <=> (f \in RequiredFields /\ formData[f] = <<>>)
      /\ errors[f] # ""

C3_Witness ==
  /\ event.op = "submit"
  /\ \A f \in Fields : formData[f] = <<>> \/ fieldSchema(f, formData[f]) = <<>>
  /\ formData["name"] = <<>> /\ errors["name"] = "Name is required"
  /\ formData["urgency"] = <<>> /\ errors["urgency"] # Undefined
  /\ formData["email"] = ValidEmail /\ errors["email"] = Undefined
  /\ formData["company"] # <<>> /\ errors["company"] = Undefined

\* C5: isSubmitting and isSubmitted are never both set: the component is
\* editing, submitting (while the timer is pending) or submitted.
C5_StatesExclusive ==
  /\ ~(isSubmitting /\ isSubmitted)
  /\ isSubmitting <=> pc = "awaiting"
  /\ isSubmitted <=> pc = "done"

C5_Witness == isSubmitted /\ ~isSubmitting /\ pc = "done"

\* The non-empty option values of a select.
EnumeratedValues(f) ==
  {OptionsOf(f)[i] : i \in 1..Len(OptionsOf(f))} \ {<<>>}

\* C10: the selects have five, four and three non-empty options, and a submit
\* with a select's value outside them records an error for that select and
\* starts no delay, so it does not lead to the submitted state.
C10_SelectsMustBeEnumerated ==
  /\ Cardinality(EnumeratedValues("companySize")) = 5
  /\ Cardinality(EnumeratedValues("currentWorkflow")) = 4
  /\ Cardinality(EnumeratedValues("urgency")) = 3
  /\ event.op = "submit" =>
       \A f \in SelectFields :
         formData[f] \notin EnumeratedValues(f) =>
           (errors[f] # Undefined /\ pc = "idle" /\ ~isSubmitting /\ ~isSubmitted)

C10_Witness ==
  /\ event.op = "submit"
  /\ formData["companySize"] \notin EnumeratedValues("companySize")
  /\ errors["companySize"] = "Please select company size"
  /\ \A f \in Fields \ {"companySize"} : fieldSchema(f, formData[f]) = <<>>
  /\ formData["currentWorkflow"] \in EnumeratedValues("currentWorkflow")
  /\ formData["urgency"] \in EnumeratedValues("urgency")

\* C1: a submit on values that pass every rule sets isSubmitting with no
\* errors; while submitting, errors stay empty and the resumption is not
\* blocked; submitting ends only in submitted, with isSubmitting false and
\* errors empty; and it does end.
C1_ValidSubmitReachesSubmitted ==
  /\ [][(handleSubmit /\ AllValid) =>
          (isSubmitting' /\ ~isSubmitted' /\ pc' = "awaiting" /\ errors' = NoErrors)]_vars
  /\ [](isSubmitting => (errors = NoErrors /\ ENABLED handleSubmitResume))
  /\ [][(isSubmitting /\ ~isSubmitting') => (isSubmitted' /\ errors' = NoErrors)]_vars
  /\ isSubmitting ~> (isSubmitted /\ ~isSubmitting /\ errors = NoErrors)

C1_Witness ==
  /\ event.op = "timer"
  /\ isSubmitted
  /\ AllValid
  /\ formData["email"] = ValidEmail
  /\ formData["phone"] = <<>>

\* C4: once isSubmitted is set it stays set, the component shows the
\* confirmation message, and no handler of the form can run any more.
C4_SubmittedIsTerminal ==
  /\ [](isSubmitted => (View = "confirmation" /\ ~ENABLED Next /\ ~ENABLED ShortNext))
  /\ [][isSubmitted => (isSubmitted' /\ View' = "confirmation")]_vars

C4_Witness == isSubmitted /\ View = "confirmation" /\ event.op = "timer"

\* The step changes no value and no error but those of field f, and leaves
\* field f without an error.
OnlyFieldTouched(f) ==
  /\ errors'[f] = Undefined
  /\ \A g \in Fields \ {f} : errors'[g] = errors[g] /\ formData'[g] = formData[g]

\* C6: an edit stores the field's new value (the phone's as formatted),
\* leaves the field without an error and changes neither the value nor the
\* error of any other field.
C6_EditClearsOwnErrorOnly ==
  [][/\ event'.op = "change" =>
          \A f \in TextFields \cup SelectFields :
            \A v \in ShortInputs[f] :
              handleChange(f, v) => (formData'[f] = v /\ OnlyFieldTouched(f))
     /\ event'.op = "phone" =>
          /\ formData'["phone"] = formatPhoneNumber(event'.value)
          /\ OnlyFieldTouched("phone")]_vars

\* After an edit: a field that fails its rules shows no error (it was edited,
\* or never validated), while another field still shows the error of an
\* earlier submit.
C6_Witness ==
  /\ event.op = "change"
  /\ \E f \in Fields : errors[f] = Undefined /\ fieldSchema(f, formData[f]) # <<>>
  /\ \E g \in Fields : errors[g] # Undefined

\* C8 as stated: no value of formData changes while the delay is pending.
C8_NoEditWhileSubmitting == [][pc = "awaiting" => formData' = formData]_vars

\* C8 as amended: while the delay is pending the form is still shown and takes
\* edits; only the submit button is disabled, so that no other submit starts,
\* and the resumption itself changes no value.
C8_OnlySubmitBlockedWhileSubmitting ==
  /\ [](pc = "awaiting" =>
          (View = "form" /\ SubmitDisabled /\ ~ENABLED handleSubmit
             /\ ENABLED handleChange("name", <<"a">>)))
  /\ [][pc = "awaiting" =>
          (event'.op # "submit" /\ (event'.op = "timer" => formData' = formData))]_vars

C8_Witness == pc = "awaiting" /\ event.op = "change" /\ ~AllValid

\* C9 as stated: a field that fails several rules in one submit shows the
\* message of the first of them.
C9_FirstFailingRuleWins ==
  event.op = "submit" =>
    \A f \in Fields :
      fieldSchema(f, formData[f]) # <<>> =>
        errors[f] = Head(fieldSchema(f, formData[f])).message

\* The characters the phone field is said to keep.
ClaimedPhoneChars == Digits \cup {"+", "-", Space, "(", ")"}

KeptUpTo(raw, i) ==
  Cardinality({j \in 1..i : raw[j] \in ClaimedPhoneChars \/ IsWhitespace(raw[j])})

\* The first 20 of those characters, in their order.
ExpectedPhone(raw) ==
  LET n == KeptUpTo(raw, Len(raw))
  IN  [k \in 1..(IF n < 20 THEN n ELSE 20) |->
         raw[CHOOSE i \in 1..Len(raw) :
               /\ raw[i] \in ClaimedPhoneChars \/ IsWhitespace(raw[i])
               /\ KeptUpTo(raw, i) = k]]

=============================================================================
